---- MODULE Spec2Model ----
(***************************************************************************)
(* The AirPlay "now playing" reconciliation engine of moodework            *)
(* (aplmeta.py), in its two revisions:                                     *)
(*   1.8.3  src/aplmeta.py                        (fresh-cover, late PID)  *)
(*   1.8.4  src/nowplayingproject/.../aplmeta.py  (sticky cover)           *)
(* The state is the module globals of the script, the cover cache          *)
(* directory, the output file with its temporary, and the calls made to    *)
(* the front-end.  One tick of the clock is 0.05 s, so that every tuning   *)
(* knob of the script is a whole number of ticks.                          *)
(***************************************************************************)
EXTENDS Integers, Sequences, FiniteSets, TLC

VARIABLES
    PGM_VERSION,            \* which revision of the script is running
    now,                    \* time.time(), in ticks
    pc,                     \* where the process is: select, poll, write, replace, crashed
    artist, title, album, duration, persistent_id, picture_bytes,
    track_epoch,
    have_cover_art,         \* 1.8.4 only
    pending, pending_start, pending_deadline, pending_pid, pending_title_at_start,
    last_emitted, last_emit_ts, last_emit_pid, last_emit_used_default,
    last_emit_title, last_emit_artist, last_emit_album, last_emit_duration,
    covers,                 \* the cover cache directory: a set of [name, mtime]
    aplmeta_file,           \* content of APLMETA_FILE (NoFile before the first write)
    aplmeta_tmp,            \* content of APLMETA_FILE + ".tmp"
    fe_calls,               \* the calls of send-fecmd.php, in order, each with
                            \* the PID, the clock and the epoch it was made under
    frame,                  \* the emit call in progress (its arguments and caller)
    poll_deadline,          \* deadline of the running cover poll
    last_event,             \* what the last step of the loop did (observation only)
    stdin,                  \* the lines waiting in the pipe
    upstream,               \* the bursts of lines the metadata reader has yet to write
    next_arrival,           \* when the metadata reader writes its next burst
    cover_writes            \* covers written so far by the cover-art writer

vars == <<PGM_VERSION, now, pc, artist, title, album, duration, persistent_id,
          picture_bytes, track_epoch, have_cover_art, pending, pending_start,
          pending_deadline, pending_pid, pending_title_at_start, last_emitted,
          last_emit_ts, last_emit_pid, last_emit_used_default, last_emit_title,
          last_emit_artist, last_emit_album, last_emit_duration, covers,
          aplmeta_file, aplmeta_tmp, fe_calls, frame, poll_deadline, last_event,
          stdin, upstream, next_arrival, cover_writes>>

(***************************************************************************)
(* Bounds of the model.                                                    *)
(***************************************************************************)
\* The clock at start: later than every window of the script, so that the
\* initial timestamps 0.0 are "long ago", as they are for time.time().
StartTime == 100
\* How many times the cover-art writer touches the cover directory in a run.
MaxCovers == 2

(***************************************************************************)
(* Program constants, in ticks of 0.05 s.                                  *)
(***************************************************************************)
SETTLE_WINDOW_SEC == 26
MAX_WAIT_FOR_ART_SEC == 20
LATE_REFRESH_CUTOFF_SEC == 40
TRACK_EPOCH_GRACE_SEC == 50
LATE_PID_WINDOW_SEC == 60
COVER_POLL_MAX_SEC == 24
COVER_POLL_STEP_SEC == 2
ART_EXTEND_SEC == 7
ART_EXTEND_SLACK_SEC == 1
TINY_TITLE_WINDOW_SEC == 40
TINY_TITLE_LEN == 6
GARBAGE_DIGITS_LEN == 6
GARBAGE_COUNT == 2

PGM_183 == "1.8.3-settlewindow-freshcover-latepid-coverpoll"
PGM_184 == "1.8.4-settlewindow-stickycover"

COVERS_LOCAL_ROOT == "/var/local/www/imagesw/airplay-covers/"
COVERS_WEB_ROOT == "imagesw/airplay-covers/"
DEFAULT_COVER_WEB == "images/default-album-cover.png"

\* Python's None for the string globals, and for picture_bytes.
None == "<None>"
NoBytes == -1
\* A file that does not exist.
NoFile == "<absent>"

(***************************************************************************)
(* Strings.                                                                *)
(***************************************************************************)
Char(s, i) == SubSeq(s, i, i)

StartsWith(s, p) == Len(s) >= Len(p) /\ SubSeq(s, 1, Len(p)) = p

EndsWith(s, p) == Len(s) >= Len(p) /\ SubSeq(s, Len(s) - Len(p) + 1, Len(s)) = p

\* Python truthiness of an optional string.
Truthy(s) == s # None /\ s # ""

Digits == {"0", "1", "2", "3", "4", "5", "6", "7", "8", "9"}
HexDigits == Digits \cup {"a", "b", "c", "d", "e", "f", "A", "B", "C", "D", "E", "F"}
Whitespace == {" ", "\t", "\n", "\r", "\f"}

\* str.isdigit(): non-empty and only digits.
IsDigit(s) == Len(s) > 0 /\ \A i \in 1..Len(s) : Char(s, i) \in Digits

DigitValue(c) ==
    CASE c = "0" -> 0 [] c = "1" -> 1 [] c = "2" -> 2 [] c = "3" -> 3 [] c = "4" -> 4
      [] c = "5" -> 5 [] c = "6" -> 6 [] c = "7" -> 7 [] c = "8" -> 8 [] c = "9" -> 9

\* int(s) of a digit string.
RECURSIVE ParseInt(_)
ParseInt(s) ==
    IF Len(s) = 0 THEN 0
    ELSE 10 * ParseInt(SubSeq(s, 1, Len(s) - 1)) + DigitValue(Char(s, Len(s)))

\* s.count(sub) for a non-empty sub: non-overlapping occurrences from the left.
RECURSIVE CountFrom(_, _, _)
CountFrom(s, sub, i) ==
    IF i + Len(sub) - 1 > Len(s) THEN 0
    ELSE IF SubSeq(s, i, i + Len(sub) - 1) = sub
         THEN 1 + CountFrom(s, sub, i + Len(sub))
         ELSE CountFrom(s, sub, i + 1)

Count(s, sub) == CountFrom(s, sub, 1)

\* Index of the first occurrence of sub in s at or after i, 0 when there is none.
RECURSIVE FindFrom(_, _, _)
FindFrom(s, sub, i) ==
    IF i + Len(sub) - 1 > Len(s) THEN 0
    ELSE IF SubSeq(s, i, i + Len(sub) - 1) = sub THEN i
         ELSE FindFrom(s, sub, i + 1)

\* s.split(sep): the sequence of the pieces.
RECURSIVE Split(_, _)
Split(s, sep) ==
    LET k == FindFrom(s, sep, 1)
    IN  IF k = 0 THEN <<s>>
        ELSE <<SubSeq(s, 1, k - 1)>> \o Split(SubSeq(s, k + Len(sep), Len(s)), sep)

\* s.strip(): leading and trailing whitespace removed.
RECURSIVE LStrip(_)
LStrip(s) ==
    IF Len(s) > 0 /\ Char(s, 1) \in Whitespace THEN LStrip(SubSeq(s, 2, Len(s))) ELSE s

RECURSIVE RStrip(_)
RStrip(s) ==
    IF Len(s) > 0 /\ Char(s, Len(s)) \in Whitespace
    THEN RStrip(SubSeq(s, 1, Len(s) - 1)) ELSE s

Strip(s) == LStrip(RStrip(s))

\* os.path.basename(p): what follows the last "/".
RECURSIVE Basename(_)
Basename(p) ==
    LET k == FindFrom(p, "/", 1)
    IN  IF k = 0 THEN p ELSE Basename(SubSeq(p, k + 1, Len(p)))

Min(a, b) == IF a <= b THEN a ELSE b
Max(a, b) == IF a >= b THEN a ELSE b

(***************************************************************************)
(* The event parser.                                                       *)
(***************************************************************************)
\* Length of the longest prefix of s made of digits.
RECURSIVE DigitPrefix(_)
DigitPrefix(s) ==
    IF Len(s) > 0 /\ Char(s, 1) \in Digits THEN 1 + DigitPrefix(SubSeq(s, 2, Len(s)))
    ELSE 0

After(s, p) == SubSeq(s, Len(p) + 1, Len(s))

\* ^(Title|Artist|Album Name):\s*"(.*?)"\.$  against key k: the value, or None.
QuotedValue(line, k) ==
    IF ~StartsWith(line, k \o ":") THEN None
    ELSE LET r == LStrip(After(line, k \o ":"))
         IN  IF StartsWith(r, "\"") /\ EndsWith(After(r, "\""), "\".")
             THEN SubSeq(r, 2, Len(r) - 2)
             ELSE None

\* ^(Track length):\s*(.*?)\.$ and then .split(" ")[0]
TrackLengthValue(line) ==
    IF ~StartsWith(line, "Track length:") THEN None
    ELSE LET r == LStrip(After(line, "Track length:"))
         IN  IF EndsWith(r, ".") THEN Split(SubSeq(r, 1, Len(r) - 1), " ")[1] ELSE None

\* ^(Persistent ID):\s*(0x[0-9a-fA-F]+)\.$
PersistentIdValue(line) ==
    IF ~StartsWith(line, "Persistent ID:") THEN None
    ELSE LET r == LStrip(After(line, "Persistent ID:"))
         IN  IF /\ StartsWith(r, "0x") /\ EndsWith(r, ".") /\ Len(r) >= 4
                /\ \A i \in 3..(Len(r) - 1) : Char(r, i) \in HexDigits
             THEN SubSeq(r, 1, Len(r) - 1)
             ELSE None

\* ^Picture received,\s*length\s*(\d+)\s*bytes\.$
PictureBytesValue(line) ==
    IF ~StartsWith(line, "Picture received,") THEN None
    ELSE LET r == LStrip(After(line, "Picture received,"))
         IN  IF ~StartsWith(r, "length") THEN None
             ELSE LET d == LStrip(After(r, "length"))
                      n == DigitPrefix(d)
                  IN  IF n > 0 /\ LStrip(SubSeq(d, n + 1, Len(d))) = "bytes."
                      THEN SubSeq(d, 1, n)
                      ELSE None

\* get_metadata(line): <<key, val>>, <<None, None>> for a line it does not know.
get_metadata(line) ==
    IF QuotedValue(line, "Title") # None THEN <<"Title", QuotedValue(line, "Title")>>
    ELSE IF QuotedValue(line, "Artist") # None
    THEN <<"Artist", QuotedValue(line, "Artist")>>
    ELSE IF QuotedValue(line, "Album Name") # None
    THEN <<"Album Name", QuotedValue(line, "Album Name")>>
    ELSE IF TrackLengthValue(line) # None THEN <<"Track length", TrackLengthValue(line)>>
    ELSE IF PersistentIdValue(line) # None
    THEN <<"Persistent ID", PersistentIdValue(line)>>
    ELSE IF PictureBytesValue(line) # None THEN <<"PictureBytes", PictureBytesValue(line)>>
    ELSE <<None, None>>

(***************************************************************************)
(* The field sanitizer.                                                    *)
(***************************************************************************)
\* U+FFFD read as Latin-1: the three characters the source counts.
REPLACEMENT_SEQ == "ï¿½"

\* The characters with ord < 32 (other than tab, newline, return) or ord = 127
\* that TLA+ strings can spell.
ControlChars == {"\f"}

RECURSIVE CountControl(_)
CountControl(s) ==
    IF Len(s) = 0 THEN 0
    ELSE (IF Char(s, 1) \in ControlChars THEN 1 ELSE 0)
         + CountControl(SubSeq(s, 2, Len(s)))

looks_garbage(s) ==
    IF s = None THEN TRUE
    ELSE IF s = "" THEN FALSE
    ELSE IF IsDigit(s) /\ Len(s) >= GARBAGE_DIGITS_LEN THEN TRUE
    ELSE IF Count(s, REPLACEMENT_SEQ) >= GARBAGE_COUNT THEN TRUE
    ELSE IF CountControl(s) >= GARBAGE_COUNT THEN TRUE
    ELSE FALSE

(***************************************************************************)
(* The cover resolver (both revisions unless said otherwise).              *)
(***************************************************************************)
\* cache_bust with a suffix that does not follow the session (what C13 rules
\* out).
cache_bust_fixed(url) == url \o "?v=0x0"

cache_bust(url) == url \o "?v=" \o (IF Truthy(persistent_id) THEN persistent_id ELSE "0x0")

\* glob of cover-*.jpg and max by mtime: the path, "" for an empty directory.
newest_cover_path ==
    IF covers = {} THEN ""
    ELSE COVERS_LOCAL_ROOT
         \o (CHOOSE c \in covers : \A d \in covers : c.mtime >= d.mtime).name

\* os.path.getmtime(p) of a path of the cover directory.
getmtime(p) == (CHOOSE c \in covers : COVERS_LOCAL_ROOT \o c.name = p).mtime

\* newest_cover_path_fresh without its test of the modification time (what C5
\* rules out).
newest_cover_path_any == newest_cover_path

newest_cover_path_fresh ==
    LET newest == newest_cover_path
    IN  IF newest = "" THEN ""
        ELSE IF track_epoch <= 0 THEN ""
        ELSE IF getmtime(newest) >= track_epoch - TRACK_EPOCH_GRACE_SEC THEN newest
        ELSE ""

cover_url_from_path(p) == cache_bust(COVERS_WEB_ROOT \o Basename(p))

default_cover_url == cache_bust(DEFAULT_COVER_WEB)

\* 1.8.3
choose_cover_url_no_poll ==
    IF picture_bytes = 0 THEN default_cover_url
    ELSE IF newest_cover_path_fresh # "" THEN cover_url_from_path(newest_cover_path_fresh)
    ELSE default_cover_url

(***************************************************************************)
(* The emit sink of 1.8.3.                                                 *)
(***************************************************************************)
pendingVars == <<pending, pending_start, pending_deadline, pending_pid,
                 pending_title_at_start>>
emitVars == <<last_emitted, last_emit_ts, last_emit_pid, last_emit_used_default,
              last_emit_title, last_emit_artist, last_emit_album, last_emit_duration>>
fieldVars == <<artist, title, album, duration, picture_bytes>>
fileVars == <<aplmeta_file, aplmeta_tmp, fe_calls>>

NoFrame == [metadata |-> None, t |-> None, a |-> None, al |-> None, dur |-> None,
            cover_url |-> None, caller |-> None]

Event(kind, outcome) == [kind |-> kind, outcome |-> outcome]

\* The line with artist and album the other way round (what C2 rules out).
Payload_swapped(t, a, al, dur, cover_url) ==
    t \o "~~~" \o al \o "~~~" \o a \o "~~~" \o dur \o "~~~" \o cover_url \o "~~~ALAC/AAC"

\* The six-field line.
Payload(t, a, al, dur, cover_url) ==
    t \o "~~~" \o a \o "~~~" \o al \o "~~~" \o dur \o "~~~" \o cover_url \o "~~~ALAC/AAC"

\* The tail of emit_pending, lines 472..476.
ClearPending ==
    /\ pending' = FALSE
    /\ pending_start' = 0
    /\ pending_deadline' = 0
    /\ pending_pid' = None
    /\ pending_title_at_start' = None

\* A caller that leaves the window armed after its emit (what C22 rules out).
AfterEmit_keeps(caller) == UNCHANGED pendingVars

\* What the caller of the emit does to the settle window once the emit has
\* returned: emit_pending clears it (lines 472..476), the deadline branch of
\* 1.8.4 only drops the flag, the late refresh leaves it alone.
AfterEmit(caller) ==
    CASE caller = "emit_pending" -> ClearPending
      [] caller = "deadline_184" ->
            /\ pending' = FALSE
            /\ UNCHANGED <<pending_start, pending_deadline, pending_pid,
                           pending_title_at_start>>
      [] OTHER -> UNCHANGED pendingVars

\* The callers whose emit is the last thing they do to the settle window; the
\* PictureBytes handler sets the window itself before its late refresh.
WindowCallers == {"emit_pending", "deadline_184"}

\* emit_payload without its comparison with last_emitted (what C1 rules out).
emit_payload_always(t, a, al, dur, cover_url, caller) ==
    /\ pc' = "write"
    /\ frame' = [metadata |-> Payload(t, a, al, dur, cover_url), t |-> t, a |-> a,
                 al |-> al, dur |-> dur, cover_url |-> cover_url, caller |-> caller]
    /\ caller \in WindowCallers => UNCHANGED pendingVars
    /\ last_event' = Event(caller, "emit")

\* emit_payload up to the call of write_aplmeta_file: a line equal to the last
\* one returns at once, any other enters the write.
emit_payload(t, a, al, dur, cover_url, caller) ==
    LET metadata == Payload(t, a, al, dur, cover_url)
    IN  IF metadata = last_emitted
        THEN /\ pc' = "select"
             /\ frame' = NoFrame
             /\ caller \in WindowCallers => AfterEmit(caller)
             /\ last_event' = Event(caller, "deduped")
        ELSE /\ pc' = "write"
             /\ frame' = [metadata |-> metadata, t |-> t, a |-> a, al |-> al,
                          dur |-> dur, cover_url |-> cover_url, caller |-> caller]
             /\ caller \in WindowCallers => UNCHANGED pendingVars
             /\ last_event' = Event(caller, "emit")

\* Prefixes of the record that a failed write can leave in the temporary file.
Partial(text) == {SubSeq(text, 1, k) : k \in {0, Len(text) \div 2}}

\* write_aplmeta_file, first half: open the temporary, write the line, close.
write_tmp ==
    /\ pc = "write"
    /\ aplmeta_tmp' = frame.metadata \o "\n"
    /\ pc' = "replace"
    /\ last_event' = Event("write", "written")
    /\ UNCHANGED <<PGM_VERSION, stdin, upstream, next_arrival, cover_writes, now,
                   fieldVars, persistent_id, track_epoch, have_cover_art, pendingVars,
                   emitVars, covers, aplmeta_file, fe_calls, frame, poll_deadline>>

\* A write that goes to the target itself, no temporary (what C10 rules out).
write_in_place_fails ==
    /\ pc = "write"
    /\ aplmeta_file' \in Partial(frame.metadata \o "\n")
    /\ pc' = "crashed"
    /\ last_event' = Event("write", "failed")
    /\ UNCHANGED <<PGM_VERSION, stdin, upstream, next_arrival, cover_writes, now,
                   fieldVars, persistent_id, track_epoch, have_cover_art, pendingVars,
                   emitVars, covers, aplmeta_tmp, fe_calls, frame, poll_deadline>>

\* The open or the write raises: the exception leaves main().
write_tmp_fails ==
    /\ pc = "write"
    /\ aplmeta_tmp' \in {aplmeta_tmp} \cup Partial(frame.metadata \o "\n")
    /\ pc' = "crashed"
    /\ last_event' = Event("write", "failed")
    /\ UNCHANGED <<PGM_VERSION, stdin, upstream, next_arrival, cover_writes, now, fieldVars, persistent_id, track_epoch,
                   have_cover_art, pendingVars, emitVars, covers, aplmeta_file,
                   fe_calls, frame, poll_deadline>>

\* How the call of send-fecmd.php can end: return code 0, another return code,
\* an exception of subprocess.call.  send_fe_update reports each to the debug
\* log and returns.
SendOutcomes == {"published", "published, send-fecmd failed"}

\* A send_fe_update that lets the failure of the call out (what C12 rules
\* out): the bookkeeping of the emit is not reached.
replace_and_notify_raises ==
    /\ pc = "replace"
    /\ aplmeta_file' = aplmeta_tmp
    /\ aplmeta_tmp' = NoFile
    /\ fe_calls' = Append(fe_calls, [line |-> frame.metadata, pid |-> persistent_id,
                                  ts |-> now, epoch |-> track_epoch])
    /\ \E sent \in SendOutcomes :
          IF sent = "published"
          THEN /\ last_emitted' = frame.metadata
               /\ last_emit_ts' = now
               /\ last_emit_pid' = persistent_id
               /\ last_emit_used_default' = StartsWith(frame.cover_url, DEFAULT_COVER_WEB)
               /\ last_emit_title' = frame.t
               /\ last_emit_artist' = frame.a
               /\ last_emit_album' = frame.al
               /\ last_emit_duration' = frame.dur
               /\ pc' = "select"
               /\ frame' = NoFrame
               /\ AfterEmit(frame.caller)
               /\ last_event' = Event(frame.caller, sent)
          ELSE /\ pc' = "crashed"
               /\ last_event' = Event(frame.caller, sent)
               /\ UNCHANGED <<emitVars, pendingVars, frame>>
    /\ UNCHANGED <<PGM_VERSION, stdin, upstream, next_arrival, cover_writes, now,
                   fieldVars, persistent_id, track_epoch, have_cover_art, covers,
                   poll_deadline>>

\* write_aplmeta_file, second half, os.replace; then send_fe_update, whatever
\* the outcome of its call, the bookkeeping of emit_payload, and the return to
\* the caller.
replace_and_notify ==
    /\ pc = "replace"
    /\ aplmeta_file' = aplmeta_tmp
    /\ aplmeta_tmp' = NoFile
    /\ fe_calls' = Append(fe_calls, [line |-> frame.metadata, pid |-> persistent_id,
                                  ts |-> now, epoch |-> track_epoch])
    /\ last_emitted' = frame.metadata
    /\ last_emit_ts' = now
    /\ last_emit_pid' = persistent_id
    /\ last_emit_used_default' = StartsWith(frame.cover_url, DEFAULT_COVER_WEB)
    /\ last_emit_title' = frame.t
    /\ last_emit_artist' = frame.a
    /\ last_emit_album' = frame.al
    /\ last_emit_duration' = frame.dur
    /\ pc' = "select"
    /\ frame' = NoFrame
    /\ AfterEmit(frame.caller)
    /\ \E sent \in SendOutcomes : last_event' = Event(frame.caller, sent)
    /\ UNCHANGED <<PGM_VERSION, stdin, upstream, next_arrival, cover_writes, now,
                   fieldVars, persistent_id, track_epoch, have_cover_art, covers,
                   poll_deadline>>

\* os.replace raises.
replace_fails ==
    /\ pc = "replace"
    /\ pc' = "crashed"
    /\ last_event' = Event("replace", "failed")
    /\ UNCHANGED <<PGM_VERSION, stdin, upstream, next_arrival, cover_writes, now, fieldVars, persistent_id, track_epoch,
                   have_cover_art, pendingVars, emitVars, covers, fileVars, frame,
                   poll_deadline>>

(***************************************************************************)
(* Revision 1.8.3: settle window, late refresh, late PID.                  *)
(***************************************************************************)
\* reset_track_state leaving the title of the old track in place (what C20
\* rules out).
reset_track_state_keeps_title ==
    /\ artist' = None
    /\ title' = title
    /\ album' = None
    /\ duration' = "0"
    /\ picture_bytes' = NoBytes
    /\ ClearPending
    /\ last_emit_title' = None
    /\ last_emit_artist' = None
    /\ last_emit_album' = None
    /\ last_emit_duration' = None
    /\ last_emit_used_default' = FALSE

\* reset_track_state of 1.8.3.
reset_track_state ==
    /\ artist' = None
    /\ title' = None
    /\ album' = None
    /\ duration' = "0"
    /\ picture_bytes' = NoBytes
    /\ ClearPending
    /\ last_emit_title' = None
    /\ last_emit_artist' = None
    /\ last_emit_album' = None
    /\ last_emit_duration' = None
    /\ last_emit_used_default' = FALSE

is_tiny_title_fragment(new_title) ==
    IF new_title = "" THEN FALSE
    ELSE IF Len(Strip(new_title)) >= TINY_TITLE_LEN THEN FALSE
    ELSE IF now - last_emit_ts >= TINY_TITLE_WINDOW_SEC THEN FALSE
    ELSE Truthy(persistent_id) /\ Truthy(last_emit_pid) /\ persistent_id = last_emit_pid

\* start_settle_window: starts the window, restarts it only for another PID.
start_settle_window(new_title) ==
    IF ~pending \/ pending_pid # persistent_id
    THEN /\ pending' = TRUE
         /\ pending_start' = now
         /\ pending_pid' = persistent_id
         /\ pending_deadline' = now + SETTLE_WINDOW_SEC
         /\ pending_title_at_start' = new_title
    ELSE UNCHANGED pendingVars

\* maybe_extend_deadline_for_art: the deadline it leaves.
maybe_extend_deadline_for_art ==
    LET hard_cap == pending_start + MAX_WAIT_FOR_ART_SEC
        new_deadline == Min(hard_cap, Max(pending_deadline, now + ART_EXTEND_SEC))
    IN  IF ~pending THEN pending_deadline
        ELSE IF now >= hard_cap THEN pending_deadline
        ELSE IF new_deadline > pending_deadline + ART_EXTEND_SLACK_SEC THEN new_deadline
        ELSE pending_deadline

is_late_pid_update ==
    \/ /\ pending
       /\ Truthy(pending_title_at_start)
       /\ Truthy(title)
       /\ title = pending_title_at_start
       /\ now - pending_start <= LATE_PID_WINDOW_SEC
    \/ /\ Truthy(last_emit_title)
       /\ Truthy(title)
       /\ title = last_emit_title
       /\ now - last_emit_ts <= LATE_PID_WINDOW_SEC

\* x or y, on optional strings.
Or(x, y) == IF Truthy(x) THEN x ELSE y

\* The late refresh with a cutoff of one second (what C3 rules out).
late_refresh_applies_1s(pb) ==
    /\ Truthy(persistent_id)
    /\ Truthy(last_emit_pid)
    /\ persistent_id = last_emit_pid
    /\ last_emit_used_default
    /\ ~(now - last_emit_ts > LATE_REFRESH_CUTOFF_SEC \div 2)
    /\ pb # 0
    /\ newest_cover_path_fresh # ""
    /\ Truthy(Or(last_emit_title, Or(title, "")))

\* A late refresh that does not ask whether the last publish used the
\* placeholder (what C26 rules out).
late_refresh_applies_again(pb) ==
    /\ Truthy(persistent_id)
    /\ Truthy(last_emit_pid)
    /\ persistent_id = last_emit_pid
    /\ ~(now - last_emit_ts > LATE_REFRESH_CUTOFF_SEC)
    /\ pb # 0
    /\ newest_cover_path_fresh # ""
    /\ Truthy(Or(last_emit_title, Or(title, "")))

\* A late refresh that does not compare the key with the key of the last
\* publish (what C31 rules out).
late_refresh_applies_any_key(pb) ==
    /\ Truthy(persistent_id)
    /\ Truthy(last_emit_pid)
    /\ last_emit_used_default
    /\ ~(now - last_emit_ts > LATE_REFRESH_CUTOFF_SEC)
    /\ pb # 0
    /\ newest_cover_path_fresh # ""
    /\ Truthy(Or(last_emit_title, Or(title, "")))

\* maybe_late_refresh_on_art gets as far as its emit (pb is the value just parsed).
late_refresh_applies(pb) ==
    /\ Truthy(persistent_id)
    /\ Truthy(last_emit_pid)
    /\ persistent_id = last_emit_pid
    /\ last_emit_used_default
    /\ ~(now - last_emit_ts > LATE_REFRESH_CUTOFF_SEC)
    /\ pb # 0
    /\ newest_cover_path_fresh # ""
    /\ Truthy(Or(last_emit_title, Or(title, "")))

\* An emit call that waits for the cover poll.
PollFrame(t, a, al, dur, caller) ==
    [metadata |-> None, t |-> t, a |-> a, al |-> al, dur |-> dur, cover_url |-> None,
     caller |-> caller]

\* emit_pending, called when the select returns with nothing to read and the
\* deadline has passed.
emit_pending ==
    /\ IF pending_pid # persistent_id \/ ~Truthy(title)
       THEN /\ pending' = FALSE
            /\ UNCHANGED <<pending_start, pending_deadline, pending_pid,
                           pending_title_at_start, pc, frame, poll_deadline>>
            /\ last_event' = Event("emit_pending", "canceled")
       ELSE LET t == title
                al == IF Truthy(album) THEN album ELSE "AirPlay Source"
                a == IF Truthy(artist) THEN artist ELSE ""
                dur == IF Truthy(duration) THEN duration ELSE "0"
                cover_url == choose_cover_url_no_poll
            IN  IF StartsWith(cover_url, DEFAULT_COVER_WEB) /\ picture_bytes # 0
                THEN \* maybe_poll_for_fresh_cover, up to its loop
                     IF newest_cover_path_fresh # ""
                     THEN /\ emit_payload(t, a, al, dur,
                                 cover_url_from_path(newest_cover_path_fresh),
                                 "emit_pending")
                          /\ UNCHANGED poll_deadline
                     ELSE /\ pc' = "poll"
                          /\ poll_deadline' = now + COVER_POLL_MAX_SEC
                          /\ frame' = PollFrame(t, a, al, dur, "emit_pending")
                          /\ last_event' = Event("emit_pending", "poll")
                          /\ UNCHANGED pendingVars
                ELSE /\ emit_payload(t, a, al, dur, cover_url, "emit_pending")
                     /\ UNCHANGED poll_deadline
    /\ UNCHANGED <<now, fieldVars, persistent_id, track_epoch, have_cover_art,
                   emitVars>>

\* A turn of the loop that sleeps and does not look (what C27 rules out).
poll_turn_183_blind ==
    /\ now' = now + COVER_POLL_STEP_SEC
    /\ last_event' = Event(frame.caller, "poll")
    /\ UNCHANGED <<pc, frame, pendingVars, have_cover_art>>

\* One turn of the loop of maybe_poll_for_fresh_cover (lines 286..291): sleep,
\* then look.
poll_turn_183 ==
    /\ now' = now + COVER_POLL_STEP_SEC
    /\ IF newest_cover_path_fresh # ""
       THEN emit_payload(frame.t, frame.a, frame.al, frame.dur,
                         cover_url_from_path(newest_cover_path_fresh), frame.caller)
       ELSE /\ last_event' = Event(frame.caller, "poll")
            /\ UNCHANGED <<pc, frame, pendingVars>>
    /\ UNCHANGED have_cover_art

\* The Persistent ID handler stamping a new epoch on a late correction too
\* (what C9 rules out).
pid_183_restamps(val) ==
    /\ IF val = persistent_id
       THEN /\ last_event' = Event("Persistent ID", "same")
            /\ UNCHANGED <<fieldVars, persistent_id, track_epoch, pendingVars,
                           emitVars>>
       ELSE IF persistent_id # None /\ is_late_pid_update
       THEN /\ persistent_id' = val
            /\ track_epoch' = now
            /\ pending_pid' = IF pending THEN val ELSE pending_pid
            /\ last_event' = Event("Persistent ID", "late")
            /\ UNCHANGED <<fieldVars, pending, pending_start, pending_deadline,
                           pending_title_at_start, emitVars>>
       ELSE /\ persistent_id' = val
            /\ track_epoch' = now
            /\ reset_track_state
            /\ last_event' = Event("Persistent ID", "new")
            /\ UNCHANGED <<last_emitted, last_emit_ts, last_emit_pid>>
    /\ UNCHANGED <<pc, frame, have_cover_art>>

\* The Persistent ID handler without line 591: a late correction leaves the
\* PID snapshot of the window alone (what C21 rules out).
pid_183_keeps_snapshot(val) ==
    /\ IF val = persistent_id
       THEN /\ last_event' = Event("Persistent ID", "same")
            /\ UNCHANGED <<fieldVars, persistent_id, track_epoch, pendingVars,
                           emitVars>>
       ELSE IF persistent_id # None /\ is_late_pid_update
       THEN /\ persistent_id' = val
            /\ last_event' = Event("Persistent ID", "late")
            /\ UNCHANGED <<fieldVars, track_epoch, pendingVars, emitVars>>
       ELSE /\ persistent_id' = val
            /\ track_epoch' = now
            /\ reset_track_state
            /\ last_event' = Event("Persistent ID", "new")
            /\ UNCHANGED <<last_emitted, last_emit_ts, last_emit_pid>>
    /\ UNCHANGED <<pc, frame, have_cover_art>>

\* The Persistent ID handler taking the first identity for a late correction
\* too (what C29 rules out).
pid_183_first_late(val) ==
    /\ IF val = persistent_id
       THEN /\ last_event' = Event("Persistent ID", "same")
            /\ UNCHANGED <<fieldVars, persistent_id, track_epoch, pendingVars,
                           emitVars>>
       ELSE IF is_late_pid_update
       THEN /\ persistent_id' = val
            /\ pending_pid' = IF pending THEN val ELSE pending_pid
            /\ last_event' = Event("Persistent ID", "late")
            /\ UNCHANGED <<fieldVars, track_epoch, pending, pending_start,
                           pending_deadline, pending_title_at_start, emitVars>>
       ELSE /\ persistent_id' = val
            /\ track_epoch' = now
            /\ reset_track_state
            /\ last_event' = Event("Persistent ID", "new")
            /\ UNCHANGED <<last_emitted, last_emit_ts, last_emit_pid>>
    /\ UNCHANGED <<pc, frame, have_cover_art>>

\* Lines 582..599 of main: a Persistent ID line.
pid_183(val) ==
    /\ IF val = persistent_id
       THEN /\ last_event' = Event("Persistent ID", "same")
            /\ UNCHANGED <<fieldVars, persistent_id, track_epoch, pendingVars,
                           emitVars>>
       ELSE IF persistent_id # None /\ is_late_pid_update
       THEN /\ persistent_id' = val
            /\ pending_pid' = IF pending THEN val ELSE pending_pid
            /\ last_event' = Event("Persistent ID", "late")
            /\ UNCHANGED <<fieldVars, track_epoch, pending, pending_start,
                           pending_deadline, pending_title_at_start, emitVars>>
       ELSE /\ persistent_id' = val
            /\ track_epoch' = now
            /\ reset_track_state
            /\ last_event' = Event("Persistent ID", "new")
            /\ UNCHANGED <<last_emitted, last_emit_ts, last_emit_pid>>
    /\ UNCHANGED <<pc, frame, have_cover_art>>

\* Lines 601..615 of main: the hint, the extension of the deadline, the late
\* refresh.
picture_183(val) ==
    LET pb == ParseInt(val)
    IN  /\ picture_bytes' = pb
        /\ pending_deadline' =
              IF pending /\ pb > 0 THEN maybe_extend_deadline_for_art
              ELSE pending_deadline
        /\ UNCHANGED <<pending, pending_start, pending_pid, pending_title_at_start>>
        /\ IF pb > 0 /\ late_refresh_applies(pb)
           THEN emit_payload(Or(last_emit_title, Or(title, "")),
                             Or(last_emit_artist, Or(artist, "")),
                             Or(last_emit_album, Or(album, "AirPlay Source")),
                             Or(last_emit_duration, Or(duration, "0")),
                             cover_url_from_path(newest_cover_path_fresh),
                             "late_refresh")
           ELSE /\ last_event' = Event("PictureBytes", "stored")
                /\ UNCHANGED <<pc, frame>>
        /\ UNCHANGED <<artist, title, album, duration, persistent_id, track_epoch,
                       have_cover_art, emitVars>>

\* Field handlers that arm the settle window as the Title handler does (what
\* C30 rules out).
field_183_arms(key, val) ==
    LET ok == ~looks_garbage(val)
    IN  /\ artist' = IF key = "Artist" /\ ok THEN val ELSE artist
        /\ album' = IF key = "Album Name" /\ ok THEN val ELSE album
        /\ duration' = IF key = "Track length" /\ ok THEN val ELSE duration
        /\ last_event' = Event(key, IF ok THEN "stored" ELSE "rejected")
        /\ pending' = TRUE
        /\ pending_start' = now
        /\ pending_deadline' = now + SETTLE_WINDOW_SEC
        /\ pending_pid' = persistent_id
        /\ pending_title_at_start' = title
        /\ UNCHANGED <<title, picture_bytes, persistent_id, track_epoch,
                       have_cover_art, emitVars, pc, frame>>

\* Lines 617..634 of main: Artist, Album Name, Track length.
field_183(key, val) ==
    LET ok == ~looks_garbage(val)
    IN  /\ artist' = IF key = "Artist" /\ ok THEN val ELSE artist
        /\ album' = IF key = "Album Name" /\ ok THEN val ELSE album
        /\ duration' = IF key = "Track length" /\ ok THEN val ELSE duration
        /\ last_event' = Event(key, IF ok THEN "stored" ELSE "rejected")
        /\ UNCHANGED <<title, picture_bytes, persistent_id, track_epoch,
                       have_cover_art, pendingVars, emitVars, pc, frame>>

\* Lines 636..653 of main: a Title line.
title_183(val) ==
    /\ IF looks_garbage(val)
       THEN /\ last_event' = Event("Title", "rejected")
            /\ UNCHANGED <<title, track_epoch, pendingVars>>
       ELSE /\ track_epoch' = IF track_epoch <= 0 THEN now ELSE track_epoch
            /\ IF is_tiny_title_fragment(val)
               THEN /\ last_event' = Event("Title", "tiny")
                    /\ UNCHANGED <<title, pendingVars>>
               ELSE /\ title' = val
                    /\ start_settle_window(val)
                    /\ last_event' = Event("Title", "stored")
    /\ UNCHANGED <<artist, album, duration, picture_bytes, persistent_id,
                   have_cover_art, emitVars, pc, frame>>

(***************************************************************************)
(* Revision 1.8.4: sticky cover.                                           *)
(***************************************************************************)
\* The cover field of the last emitted line; the placeholder when the line
\* has no fifth piece (the except branch).
last_emitted_cover ==
    LET pieces == Split(last_emitted, "~~~")
    IN  IF Len(pieces) >= 5 THEN pieces[5] ELSE default_cover_url

\* choose_cover_url without the sticky branches (what C4 rules out).
choose_cover_url_unlocked(pb) ==
    IF pb = 0 THEN default_cover_url
    ELSE IF newest_cover_path_fresh # ""
    THEN cover_url_from_path(newest_cover_path_fresh)
    ELSE default_cover_url

\* choose_cover_url of 1.8.4, for the hint pb: the reference it returns.
choose_cover_url(pb) ==
    IF pb = 0
    THEN IF have_cover_art /\ last_emitted # "" THEN last_emitted_cover
         ELSE default_cover_url
    ELSE IF newest_cover_path_fresh # ""
    THEN cover_url_from_path(newest_cover_path_fresh)
    ELSE IF have_cover_art /\ last_emitted # "" THEN last_emitted_cover
    ELSE default_cover_url

\* choose_cover_url sets have_cover_art when it returns a fresh cover.
choose_cover_url_locks(pb) == pb # 0 /\ newest_cover_path_fresh # ""

\* emit of 1.8.4 up to the call of write_aplmeta_file: a line equal to the last
\* one is written again when the PID is the PID of the last emit.
emit(t, a, al, dur, cover, caller) ==
    LET payload == Payload(t, a, al, dur, cover)
    IN  IF payload = last_emitted
           /\ ~(Truthy(persistent_id) /\ last_emit_pid = persistent_id)
        THEN /\ pc' = "select"
             /\ frame' = NoFrame
             /\ caller \in WindowCallers => AfterEmit(caller)
             /\ last_event' = Event(caller, "deduped")
        ELSE /\ pc' = "write"
             /\ frame' = [metadata |-> payload, t |-> t, a |-> a, al |-> al,
                          dur |-> dur, cover_url |-> cover, caller |-> caller]
             /\ caller \in WindowCallers => UNCHANGED pendingVars
             /\ last_event' = Event(caller, "emit")

\* Lines 263..285 of main: the select returns with nothing to read and the
\* deadline has passed.
deadline_184 ==
    /\ IF Truthy(title) /\ (pending_pid = None \/ pending_pid = persistent_id)
       THEN LET cover == choose_cover_url(picture_bytes)
            IN  IF StartsWith(cover, DEFAULT_COVER_WEB) /\ picture_bytes # 0
                THEN /\ pc' = "poll"
                     /\ poll_deadline' = now + COVER_POLL_MAX_SEC
                     /\ frame' = PollFrame(title, Or(artist, ""),
                                           Or(album, "AirPlay Source"),
                                           Or(duration, "0"), "deadline_184")
                     /\ have_cover_art' =
                           (have_cover_art \/ choose_cover_url_locks(picture_bytes))
                     /\ last_event' = Event("deadline_184", "poll")
                     /\ UNCHANGED pendingVars
                ELSE /\ have_cover_art' =
                           (\/ have_cover_art
                            \/ choose_cover_url_locks(picture_bytes)
                            \/ (cover # "" /\ ~StartsWith(cover, DEFAULT_COVER_WEB)))
                     /\ emit(title, Or(artist, ""), Or(album, "AirPlay Source"),
                             Or(duration, "0"), cover, "deadline_184")
                     /\ UNCHANGED poll_deadline
       ELSE /\ pending' = FALSE
            /\ last_event' = Event("deadline_184", "canceled")
            /\ UNCHANGED <<pending_start, pending_deadline, pending_pid,
                           pending_title_at_start, pc, frame, poll_deadline,
                           have_cover_art>>
    /\ UNCHANGED <<now, fieldVars, persistent_id, track_epoch, emitVars>>

\* One turn of the loop of maybe_poll_for_fresh_cover of 1.8.4 (lines
\* 162..167): look, then sleep.  A cover found is locked (lines 165, 272).
poll_turn_184 ==
    IF newest_cover_path_fresh # ""
    THEN /\ have_cover_art' = TRUE
         /\ emit(frame.t, frame.a, frame.al, frame.dur,
                 cover_url_from_path(newest_cover_path_fresh), frame.caller)
         /\ UNCHANGED now
    ELSE /\ now' = now + COVER_POLL_STEP_SEC
         /\ last_event' = Event(frame.caller, "poll")
         /\ UNCHANGED <<pc, frame, pendingVars, have_cover_art>>

\* reset_track_state of 1.8.4, and lines 309..311 after it.
reset_track_state_184(val) ==
    /\ artist' = None
    /\ title' = None
    /\ album' = None
    /\ duration' = "0"
    /\ picture_bytes' = NoBytes
    /\ pending' = FALSE
    /\ have_cover_art' = FALSE
    /\ pending_pid' = val
    /\ pending_title_at_start' = None
    /\ UNCHANGED <<pending_start, pending_deadline>>

\* Lines 303..314 of main.
pid_184(val) ==
    /\ IF val # persistent_id
       THEN /\ persistent_id' = val
            /\ track_epoch' = now
            /\ reset_track_state_184(val)
            /\ last_event' = Event("Persistent ID", "new")
       ELSE /\ last_event' = Event("Persistent ID", "same")
            /\ UNCHANGED <<fieldVars, persistent_id, track_epoch, pendingVars,
                           have_cover_art>>
    /\ UNCHANGED <<pc, frame, emitVars>>

\* Lines 317..353 of main: the late art refresh, then the extension.
picture_184(val) ==
    LET pb == ParseInt(val)
        late == /\ pb > 0
                /\ Truthy(title)
                /\ last_emit_pid = persistent_id
                /\ last_emit_used_default
        cover == choose_cover_url(pb)
        hard_cap == pending_start + MAX_WAIT_FOR_ART_SEC
    IN  /\ picture_bytes' = pb
        /\ IF late /\ ~StartsWith(cover, DEFAULT_COVER_WEB)
           THEN /\ have_cover_art' = TRUE
                /\ emit(title, Or(artist, ""), Or(album, "AirPlay Source"),
                        Or(duration, "0"), cover, "late_art")
           ELSE /\ have_cover_art' =
                      (have_cover_art \/ (late /\ choose_cover_url_locks(pb)))
                /\ last_event' = Event("PictureBytes", "stored")
                /\ UNCHANGED <<pc, frame>>
        /\ pending_deadline' =
              IF pending /\ pb > 0 /\ now < hard_cap
              THEN Min(hard_cap, Max(pending_deadline, now + ART_EXTEND_SEC))
              ELSE pending_deadline
        /\ UNCHANGED <<pending, pending_start, pending_pid, pending_title_at_start,
                       artist, title, album, duration, persistent_id, track_epoch,
                       emitVars>>

\* Lines 356..366 of main.
field_184(key, val) ==
    /\ artist' = IF key = "Artist" THEN val ELSE artist
    /\ album' = IF key = "Album Name" THEN val ELSE album
    /\ duration' = IF key = "Track length" THEN val ELSE duration
    /\ last_event' = Event(key, "stored")
    /\ UNCHANGED <<title, picture_bytes, persistent_id, track_epoch, have_cover_art,
                   pendingVars, emitVars, pc, frame>>

\* Lines 369..382 of main.
title_184(val) ==
    /\ title' = val
    /\ track_epoch' = IF track_epoch <= 0 THEN now ELSE track_epoch
    /\ pending' = TRUE
    /\ pending_pid' = persistent_id
    /\ pending_title_at_start' = val
    /\ pending_start' = now
    /\ pending_deadline' = now + SETTLE_WINDOW_SEC
    /\ last_event' = Event("Title", "stored")
    /\ UNCHANGED <<artist, album, duration, picture_bytes, persistent_id,
                   have_cover_art, emitVars, pc, frame>>

(***************************************************************************)
(* The main loop.                                                          *)
(***************************************************************************)
\* Every line a run may be fed.
AllLines == {
    "Persistent ID: 0xAA.",
    "Persistent ID: 0xBB.",
    "Title: \"Song\".",
    "Title: \"Imagine\".",
    "Title: \"Red\".",
    "Title: \"12345678\".",
    "Title: \"\".",
    "Artist: \"Band\".",
    "Artist: \"\".",
    "Album Name: \"Record\".",
    "Album Name: \"a��b\".",
    "Album Name: \"R\f\fd\".",
    "Track length: 210 seconds.",
    "Track length: abc.",
    "Picture received, length 4096 bytes.",
    "Picture received, length 0 bytes.",
    "Volume: -20.00." }

\* line = safe_decode(raw).strip(); key, val = get_metadata(line), with the
\* two continue of lines 573..578 as the key None.
Parsed ==
    [raw \in AllLines |->
        IF Strip(raw) = "" THEN <<None, None>> ELSE get_metadata(Strip(raw))]

Key(raw) == Parsed[raw][1]
Val(raw) == Parsed[raw][2]

\* The select returns with a line to read: the rest of the loop body.
read_line(raw) ==
    /\ pc = "select"
    /\ LET key == Key(raw)
           val == Val(raw)
           v183 == PGM_VERSION = PGM_183
       IN  CASE key = "Persistent ID" -> IF v183 THEN pid_183(val) ELSE pid_184(val)
             [] key = "PictureBytes" -> IF v183 THEN picture_183(val) ELSE picture_184(val)
             [] key \in {"Artist", "Album Name", "Track length"} ->
                   IF v183 THEN field_183(key, val) ELSE field_184(key, val)
             [] key = "Title" -> IF v183 THEN title_183(val) ELSE title_184(val)
             [] OTHER ->
                   /\ last_event' = Event("line", "ignored")
                   /\ UNCHANGED <<fieldVars, persistent_id, track_epoch,
                                  have_cover_art, pendingVars, emitVars, pc, frame>>
    /\ stdin' = Tail(stdin)
    /\ UNCHANGED <<PGM_VERSION, upstream, next_arrival, cover_writes, now, covers, fileVars,
                   poll_deadline>>

\* The select returns with nothing to read, at or after the deadline.
select_timeout ==
    /\ pc = "select"
    /\ stdin = <<>>
    /\ pending
    /\ now >= pending_deadline
    /\ IF PGM_VERSION = PGM_183 THEN emit_pending ELSE deadline_184
    /\ UNCHANGED <<PGM_VERSION, stdin, upstream, next_arrival, cover_writes, covers,
                   fileVars>>

\* The cover poll before the deadline of the poll.
poll_step ==
    /\ pc = "poll"
    /\ now < poll_deadline
    /\ IF PGM_VERSION = PGM_183 THEN poll_turn_183 ELSE poll_turn_184
    /\ UNCHANGED <<PGM_VERSION, stdin, upstream, next_arrival, cover_writes, fieldVars, persistent_id, track_epoch, emitVars,
                   covers, fileVars, poll_deadline>>

\* The cover poll out of time: the placeholder.
poll_expire ==
    /\ pc = "poll"
    /\ now >= poll_deadline
    /\ IF PGM_VERSION = PGM_183
       THEN emit_payload(frame.t, frame.a, frame.al, frame.dur, default_cover_url,
                         frame.caller)
       ELSE emit(frame.t, frame.a, frame.al, frame.dur, default_cover_url,
                 frame.caller)
    /\ UNCHANGED <<PGM_VERSION, stdin, upstream, next_arrival, cover_writes, now, fieldVars, persistent_id, track_epoch,
                   have_cover_art, emitVars, covers, fileVars, poll_deadline>>

(***************************************************************************)
(* The environment: the metadata reader, the clock, the cover-art writer.  *)
(***************************************************************************)
\* The metadata reader writes its next burst of lines to the pipe; the burst
\* after it follows by one of the gaps that burst allows.
arrive ==
    /\ pc = "select"
    /\ stdin = <<>>
    /\ upstream # <<>>
    /\ now >= next_arrival
    /\ stdin' = Head(upstream).lines
    /\ upstream' = Tail(upstream)
    /\ next_arrival' \in IF Tail(upstream) = <<>> THEN {next_arrival}
                        ELSE {next_arrival + g : g \in Head(Tail(upstream)).gaps}
    /\ last_event' = Event("pipe", "arrive")
    /\ UNCHANGED <<PGM_VERSION, cover_writes, now, pc, fieldVars, persistent_id,
                   track_epoch, have_cover_art, pendingVars, emitVars, covers,
                   fileVars, frame, poll_deadline>>

\* What the select of lines 553..557 waits for: the next burst, and the
\* deadline of the settle window when one is armed.
WakeTimes ==
    (IF upstream # <<>> THEN {next_arrival} ELSE {})
    \cup (IF pending THEN {pending_deadline} ELSE {})

\* The loop sleeps in select, the pipe empty, until the first of them.
wait ==
    /\ pc = "select"
    /\ stdin = <<>>
    /\ WakeTimes # {}
    /\ \A t \in WakeTimes : t > now
    /\ now' = CHOOSE t \in WakeTimes : \A u \in WakeTimes : t <= u
    /\ last_event' = Event("clock", "wait")
    /\ UNCHANGED <<PGM_VERSION, stdin, upstream, next_arrival, cover_writes, pc,
                   fieldVars, persistent_id, track_epoch, have_cover_art, pendingVars,
                   emitVars, covers, fileVars, frame, poll_deadline>>

CoverNames == {"cover-1f.jpg"}

\* shairport-sync drops a cover (retain_cover_art = "no": it replaces the last).
write_cover(name) ==
    /\ pc \in {"select", "poll"}
    /\ stdin = <<>>
    /\ cover_writes < MaxCovers
    /\ cover_writes' = cover_writes + 1
    /\ covers' = {[name |-> name, mtime |-> now]}
    /\ last_event' = Event("cover", "written")
    /\ UNCHANGED <<PGM_VERSION, stdin, upstream, next_arrival, now, pc, fieldVars,
                   persistent_id, track_epoch, have_cover_art, pendingVars, emitVars,
                   fileVars, frame, poll_deadline>>

\* shairport-sync empties the cover directory.
clear_covers ==
    /\ pc \in {"select", "poll"}
    /\ stdin = <<>>
    /\ cover_writes < MaxCovers
    /\ covers # {}
    /\ cover_writes' = cover_writes + 1
    /\ covers' = {}
    /\ last_event' = Event("cover", "cleared")
    /\ UNCHANGED <<PGM_VERSION, stdin, upstream, next_arrival, now, pc, fieldVars,
                   persistent_id, track_epoch, have_cover_art, pendingVars, emitVars,
                   fileVars, frame, poll_deadline>>

(***************************************************************************)
(* Specifications.                                                         *)
(***************************************************************************)
\* How long ago the cover found at start was written.
OldCoverAge == 60

InitState(versions, scripts) ==
    /\ PGM_VERSION \in versions
    /\ stdin = <<>>
    /\ upstream \in scripts
    /\ next_arrival \in {StartTime + g : g \in Head(upstream).gaps}
    /\ cover_writes = 0
    /\ now = StartTime
    /\ pc = "select"
    /\ artist = None
    /\ title = None
    /\ album = None
    /\ duration = "0"
    /\ persistent_id = None
    /\ picture_bytes = NoBytes
    /\ track_epoch = 0
    /\ have_cover_art = FALSE
    /\ pending = FALSE
    /\ pending_start = 0
    /\ pending_deadline = 0
    /\ pending_pid = None
    /\ pending_title_at_start = None
    /\ last_emitted = ""
    /\ last_emit_ts = 0
    /\ last_emit_pid = None
    /\ last_emit_used_default = FALSE
    /\ last_emit_title = None
    /\ last_emit_artist = None
    /\ last_emit_album = None
    /\ last_emit_duration = None
    /\ covers \in {{}, {[name |-> "cover-0e.jpg", mtime |-> StartTime - OldCoverAge]}}
    /\ aplmeta_file = NoFile
    /\ aplmeta_tmp = NoFile
    /\ fe_calls = <<>>
    /\ frame = NoFrame
    /\ poll_deadline = 0
    /\ last_event = Event("start", "start")

Next ==
    \/ arrive
    \/ stdin # <<>> /\ read_line(Head(stdin))
    \/ select_timeout
    \/ poll_step
    \/ poll_expire
    \/ write_tmp
    \/ write_tmp_fails
    \/ replace_and_notify
    \/ replace_fails
    \/ wait
    \/ \E name \in CoverNames : write_cover(name)
    \/ clear_covers

\* Gaps between two bursts of the metadata reader, in ticks.
Burst(gaps, lines) == [gaps |-> gaps, lines |-> lines]
AtOnce == 0
HalfSecond == 10
OneSecond == 20
ThreeSeconds == 60
FourSeconds == 80
FiveSeconds == 100
SevenSeconds == 150

\* The end-to-end scenario of the specification: the five lines of a track in
\* one burst; the picture line 1.5 s or 2.5 s after the placeholder is out
\* (the settle window and the cover poll take 2.5 s), or within the window.
ScriptE2E == <<
    Burst({AtOnce},
          << "Persistent ID: 0xAA.",
             "Title: \"Song\".",
             "Artist: \"Band\".",
             "Album Name: \"Record\".",
             "Track length: 210 seconds." >>),
    Burst({OneSecond, FourSeconds, FiveSeconds},
          << "Picture received, length 4096 bytes." >>) >>

InitE2E == InitState({PGM_183, PGM_184}, {ScriptE2E})
SpecE2E == InitE2E /\ [][Next]_vars

\* A track whose title is repeated, then a picture-less hint and another title.
ScriptRepeat == <<
    Burst({AtOnce}, << "Persistent ID: 0xAA.", "Title: \"Imagine\"." >>),
    Burst({HalfSecond, ThreeSeconds}, << "Title: \"Imagine\"." >>),
    Burst({HalfSecond, ThreeSeconds}, << "Picture received, length 0 bytes." >>),
    Burst({HalfSecond, ThreeSeconds}, << "Title: \"Song\"." >>) >>

\* A track, another identity, a short title, a picture.
ScriptTracks == <<
    Burst({AtOnce},
          << "Persistent ID: 0xAA.", "Title: \"Imagine\".", "Artist: \"Band\"." >>),
    Burst({OneSecond, ThreeSeconds, FiveSeconds}, << "Persistent ID: 0xBB." >>),
    Burst({HalfSecond, FiveSeconds}, << "Title: \"Red\"." >>),
    Burst({HalfSecond, FiveSeconds}, << "Picture received, length 4096 bytes." >>) >>

\* A source that sends no identity at first.
ScriptNoPid == <<
    Burst({AtOnce}, << "Title: \"Imagine\"." >>),
    Burst({HalfSecond, ThreeSeconds}, << "Title: \"Imagine\"." >>),
    Burst({HalfSecond, ThreeSeconds}, << "Persistent ID: 0xAA." >>) >>

\* Values the sanitizer is there for, empty values, a line of no interest.
ScriptGarbage == <<
    Burst({AtOnce},
          << "Persistent ID: 0xAA.", "Title: \"12345678\".", "Title: \"Song\".",
             "Artist: \"Band\".", "Album Name: \"R\f\fd\".",
             "Album Name: \"a��b\".", "Track length: abc." >>),
    Burst({HalfSecond, ThreeSeconds},
          << "Volume: -20.00.", "Artist: \"\".", "Title: \"\"." >>) >>

\* A track, then a short title half a second or five seconds after it is out.
ScriptFragment == <<
    Burst({AtOnce}, << "Persistent ID: 0xAA.", "Title: \"Imagine\"." >>),
    Burst({ThreeSeconds, SevenSeconds}, << "Title: \"Red\"." >>),
    Burst({HalfSecond, FiveSeconds}, << "Title: \"Red\"." >>) >>

\* A track whose title changes inside the settle window, then another
\* identity, inside the window or long after it, and its title.
ScriptRetitle == <<
    Burst({AtOnce},
          << "Persistent ID: 0xAA.", "Title: \"Imagine\".", "Artist: \"Band\".",
             "Title: \"Song\"." >>),
    Burst({HalfSecond, SevenSeconds}, << "Persistent ID: 0xBB." >>),
    Burst({HalfSecond}, << "Title: \"Red\"." >>) >>

\* A track sent with its title only; artist and album follow once the window
\* has fired, and then the picture, twice.
ScriptLateFields == <<
    Burst({AtOnce}, << "Persistent ID: 0xAA.", "Title: \"Imagine\"." >>),
    Burst({ThreeSeconds},
          << "Artist: \"Band\".", "Album Name: \"Record\".",
             "Picture received, length 4096 bytes.",
             "Picture received, length 4096 bytes." >>) >>

\* A track whose title is sent again, with the picture, once the window has
\* fired.
ScriptRearm == <<
    Burst({AtOnce}, << "Persistent ID: 0xAA.", "Title: \"Imagine\"." >>),
    Burst({ThreeSeconds},
          << "Title: \"Imagine\".", "Picture received, length 4096 bytes." >>) >>

\* A track whose identity is corrected once the window has fired, the
\* picture right behind the correction.
ScriptLateKey == <<
    Burst({AtOnce}, << "Persistent ID: 0xAA.", "Title: \"Imagine\"." >>),
    Burst({ThreeSeconds},
          << "Persistent ID: 0xBB.", "Picture received, length 4096 bytes." >>) >>

InitRun == InitState({PGM_183, PGM_184},
                     {ScriptRepeat, ScriptTracks, ScriptNoPid, ScriptGarbage,
                      ScriptFragment, ScriptRetitle, ScriptLateFields, ScriptRearm,
                      ScriptLateKey})
SpecRun == InitRun /\ [][Next]_vars

(***************************************************************************)
(* The published lines, as the front-end sees them.                        *)
(***************************************************************************)
\* The cover reference of a published line: its fifth field.
CoverOf(line) == Split(line, "~~~")[5]

UsesPlaceholder(line) == StartsWith(CoverOf(line), DEFAULT_COVER_WEB)

\* Two publishes of one session: the same PID under the same epoch.
SameSession(x, y) == x.pid = y.pid /\ x.epoch = y.epoch

E2E_Placeholder ==
    "Song~~~Band~~~Record~~~210~~~images/default-album-cover.png?v=0xAA~~~ALAC/AAC"

E2E_Cover ==
    "Song~~~Band~~~Record~~~210~~~imagesw/airplay-covers/cover-1f.jpg?v=0xAA~~~ALAC/AAC"

\* C2: fed Identity 0xAA, Title "Song", Artist "Band", Album "Record",
\* Duration 210, with no PictureBytes line read and the cover directory left
\* alone, the program publishes at most once, the line published is the one
\* with the placeholder cover under ?v=0xAA, and once the settle window has
\* fired and the emit has returned exactly one publish has happened.
C2_EndToEndNoArt ==
    (picture_bytes = NoBytes /\ cover_writes = 0)
    => /\ Len(fe_calls) <= 1
       /\ fe_calls # <<>>
          => /\ fe_calls[1].line = E2E_Placeholder
             /\ aplmeta_file = E2E_Placeholder \o "\n"
       /\ (title = "Song" /\ ~pending /\ pc = "select" /\ stdin = <<>>)
          => Len(fe_calls) = 1

C2_Witness ==
    /\ picture_bytes = NoBytes
    /\ cover_writes = 0
    /\ fe_calls # <<>>
    /\ fe_calls[1].line = E2E_Placeholder
    /\ fe_calls[1].ts >= fe_calls[1].epoch + SETTLE_WINDOW_SEC
    /\ ~pending

\* A cover file of the directory that is fresh for the current epoch.
FreshCoverPresent == \E c \in covers : c.mtime >= track_epoch - TRACK_EPOCH_GRACE_SEC

\* C3: after the placeholder publish of the end-to-end scenario, a
\* PictureBytes(4096) line read within the late-refresh cutoff, with a fresh
\* cover in the directory, starts a publish; the run has at most one publish
\* after the first, and that one carries the same four text fields and the
\* cached cover.
C3_EndToEndLateArt ==
    /\ (/\ last_event = Event("PictureBytes", "stored")
        /\ Len(fe_calls) = 1
        /\ fe_calls[1].line = E2E_Placeholder
        /\ FreshCoverPresent)
       => now - last_emit_ts > LATE_REFRESH_CUTOFF_SEC
    /\ Len(fe_calls) <= 2
    /\ Len(fe_calls) = 2
       => /\ fe_calls[1].line = E2E_Placeholder
          /\ fe_calls[2].line = E2E_Cover
          /\ aplmeta_file = E2E_Cover \o "\n"

\* The picture line came 1.5 s after the placeholder and the refresh is out.
C3_Witness ==
    /\ Len(fe_calls) = 2
    /\ fe_calls[1].line = E2E_Placeholder
    /\ fe_calls[2].line = E2E_Cover
    /\ fe_calls[2].ts - fe_calls[1].ts = FourSeconds - (SETTLE_WINDOW_SEC + COVER_POLL_MAX_SEC)
    /\ picture_bytes = 4096

(***************************************************************************)
(* C4  Sticky cover.                                                       *)
(***************************************************************************)
\* No publish of a session falls back to the placeholder after a publish of
\* that session carried a cover.
NoDowngrade ==
    \A i \in 1..Len(fe_calls) : \A j \in i..Len(fe_calls) :
        (SameSession(fe_calls[i], fe_calls[j]) /\ ~UsesPlaceholder(fe_calls[i].line))
        => ~UsesPlaceholder(fe_calls[j].line)

\* C4 (as claimed): once a publish of a session has used a non-placeholder
\* cover, every later publish of that session uses a non-placeholder cover,
\* whatever Title and PictureBytes lines (PictureBytes 0 included) follow and
\* whatever happens to the cover files.
C4_StickyNoDowngrade == NoDowngrade

\* C4 (amended): in revision 1.8.4, the one with the sticky cover, once a
\* publish of a session has used a non-placeholder cover, every later publish
\* of that session uses a non-placeholder cover.
C4_StickyNoDowngrade184 == PGM_VERSION = PGM_184 => NoDowngrade

\* 1.8.4 has published again after PictureBytes 0 and kept the cover.
C4_Witness ==
    /\ PGM_VERSION = PGM_184
    /\ Len(fe_calls) >= 2
    /\ SameSession(fe_calls[Len(fe_calls) - 1], fe_calls[Len(fe_calls)])
    /\ fe_calls[Len(fe_calls) - 1].line # fe_calls[Len(fe_calls)].line
    /\ ~UsesPlaceholder(fe_calls[Len(fe_calls) - 1].line)
    /\ ~UsesPlaceholder(fe_calls[Len(fe_calls)].line)
    /\ picture_bytes = 0

(***************************************************************************)
(* C5  Cover validity.                                                     *)
(***************************************************************************)
\* C5: a publish that carries a cached cover resolved for the session refers,
\* when the publish starts, to a file of the cover directory whose
\* modification time is at least epoch - grace; the one cover reference not
\* resolved is the sticky one of 1.8.4, kept from the last published line.
C5_CoverValidity ==
    (pc = "write" /\ ~StartsWith(frame.cover_url, DEFAULT_COVER_WEB))
    => \/ \E c \in covers :
             /\ StartsWith(frame.cover_url, COVERS_WEB_ROOT \o c.name \o "?v=")
             /\ c.mtime >= track_epoch - TRACK_EPOCH_GRACE_SEC
       \/ /\ PGM_VERSION = PGM_184
          /\ have_cover_art
          /\ last_emitted # ""
          /\ frame.cover_url = CoverOf(last_emitted)

\* The cover poll has found a cover and the publish with it has started.
C5_Witness ==
    /\ pc = "write"
    /\ frame.caller = "emit_pending"
    /\ now > pending_deadline
    /\ StartsWith(frame.cover_url, COVERS_WEB_ROOT)
    /\ \E c \in covers : c.mtime >= track_epoch

(***************************************************************************)
(* C6  Sanitization.                                                       *)
(***************************************************************************)
\* U+FFFD, what a decode error leaves in a line (safe_decode, errors="replace").
REPLACEMENT_CHARACTER == "�"

\* What the specification has the sanitizer reject.
SanitizerRejects(s) ==
    /\ s # None
    /\ \/ IsDigit(s) /\ Len(s) >= GARBAGE_DIGITS_LEN
       \/ Count(s, REPLACEMENT_CHARACTER) >= GARBAGE_COUNT
       \/ CountControl(s) >= GARBAGE_COUNT

\* C6: in every reachable state of 1.8.3 the title, the artist and the album
\* hold no value the sanitizer rejects: no digit string of length 6 or more,
\* no string with two or more replacement characters, no string with two or
\* more control characters.
C6_SanitizedFields ==
    PGM_VERSION = PGM_183
    => \A s \in {title, artist, album} : ~SanitizerRejects(s)

(***************************************************************************)
(* C7, C8, C9  The handlers of Persistent ID and Title lines.              *)
(***************************************************************************)
\* The step reads a line of the given key from the pipe.
ReadsLine(key) ==
    /\ pc = "select"
    /\ stdin # <<>>
    /\ Key(Head(stdin)) = key
    /\ stdin' = Tail(stdin)

\* The step reads an identity with another token than the session's.
IdentityChanges ==
    /\ ReadsLine("Persistent ID")
    /\ persistent_id # None
    /\ Val(Head(stdin)) # persistent_id

FieldsKept ==
    /\ title' = title
    /\ artist' = artist
    /\ album' = album
    /\ duration' = duration
    /\ picture_bytes' = picture_bytes
    /\ pending' = pending

FieldsReset ==
    /\ title' = None
    /\ artist' = None
    /\ album' = None
    /\ duration' = "0"
    /\ picture_bytes' = NoBytes
    /\ ~pending'

\* C7: with a settle window armed on the current title, an identity with
\* another token read within 3.0 s of the arming does not reset the session
\* fields, and one read later than that resets them.
C7_LateIdentity ==
    [][(IdentityChanges /\ pending /\ Truthy(title) /\ title = pending_title_at_start)
       => /\ now - pending_start <= LATE_PID_WINDOW_SEC => FieldsKept
          /\ now - pending_start > LATE_PID_WINDOW_SEC => FieldsReset]_vars

\* C8: after a publish for the session key, a title of 1 to 5 characters read
\* for the same session key less than 2 s after the publish neither changes
\* the stored title nor touches the settle window; read 2 s or more after the
\* publish it is stored and the window is armed.
C8_TinyFragment ==
    [][(/\ ReadsLine("Title")
        /\ Val(Head(stdin)) # ""
        /\ Len(Val(Head(stdin))) < TINY_TITLE_LEN
        /\ Truthy(persistent_id)
        /\ last_emit_pid = persistent_id)
       => /\ now - last_emit_ts < TINY_TITLE_WINDOW_SEC
             => (title' = title /\ UNCHANGED pendingVars)
          /\ now - last_emit_ts >= TINY_TITLE_WINDOW_SEC
             => (title' = Val(Head(stdin)) /\ pending')]_vars

\* C9: the epoch never decreases; an identity read that keeps the session
\* fields (a late correction) leaves it unchanged; it changes only to the
\* current time, and only when an identity with another token is read or when
\* a title is read and no epoch has been established.
C9_MonotonicEpoch ==
    [][/\ track_epoch' >= track_epoch
       /\ (ReadsLine("Persistent ID") /\ Truthy(title) /\ title' = title)
          => track_epoch' = track_epoch
       /\ track_epoch' # track_epoch
          => /\ track_epoch' = now
             /\ \/ ReadsLine("Persistent ID") /\ Val(Head(stdin)) # persistent_id
                \/ ReadsLine("Title") /\ track_epoch <= 0]_vars

\* A late correction has relabelled the session, the epoch older than the clock.
C9_Witness ==
    /\ last_event = Event("Persistent ID", "late")
    /\ Truthy(title)
    /\ 0 < track_epoch
    /\ track_epoch < now

(***************************************************************************)
(* C10  The output file.                                                   *)
(***************************************************************************)
\* C10: in every state, the steps inside a publish and the state a failed
\* write leaves included, the output file is absent (nothing published yet)
\* or holds the whole of the last published line.
C10_AtomicOutputFile ==
    aplmeta_file = IF fe_calls = <<>> THEN NoFile
                   ELSE fe_calls[Len(fe_calls)].line \o "\n"

\* A write has failed part-way: the temporary holds a piece of the new line,
\* the output file the whole of the line before.
C10_Witness ==
    /\ pc = "crashed"
    /\ fe_calls # <<>>
    /\ aplmeta_tmp # NoFile
    /\ aplmeta_tmp # ""
    /\ aplmeta_tmp # frame.metadata \o "\n"
    /\ aplmeta_file = fe_calls[Len(fe_calls)].line \o "\n"
    /\ frame.metadata # fe_calls[Len(fe_calls)].line

(***************************************************************************)
(* C11  A write of the output file that fails.                             *)
(***************************************************************************)
\* C11: when the write of the output file fails during a publish (the write
\* of the temporary or the replace), the event loop does not terminate: the
\* process is back at its select, ready for the next line or timer.
C11_WriteFailureKeepsLoop ==
    last_event.outcome = "failed" => pc = "select"

(***************************************************************************)
(* C12  A notification of the front-end that fails.                        *)
(***************************************************************************)
\* C12: every publish replaces the output file and then calls the front-end
\* exactly once, with the line now in the file; whatever the outcome of that
\* call, the publish is recorded (last published line, its time, its session
\* key, its placeholder flag) and the process is back at its select; the
\* front-end is called by no other step.
C12_NotifyNonFatal ==
    [][/\ (pc = "replace" /\ aplmeta_file' = aplmeta_tmp /\ aplmeta_tmp' = NoFile)
          => /\ fe_calls' = Append(fe_calls, [line |-> frame.metadata,
                                              pid |-> persistent_id, ts |-> now,
                                              epoch |-> track_epoch])
             /\ aplmeta_file' = frame.metadata \o "\n"
             /\ last_emitted' = frame.metadata
             /\ last_emit_ts' = now
             /\ last_emit_pid' = persistent_id
             /\ last_emit_used_default' = UsesPlaceholder(frame.metadata)
             /\ pc' = "select"
       /\ fe_calls' # fe_calls
          => pc = "replace" /\ aplmeta_file' = aplmeta_tmp /\ aplmeta_tmp' = NoFile]_vars

\* The call of send-fecmd.php has failed, the publish is on record and the
\* loop is at its select.
C12_Witness ==
    /\ last_event.outcome = "published, send-fecmd failed"
    /\ pc = "select"
    /\ fe_calls # <<>>
    /\ last_emitted = fe_calls[Len(fe_calls)].line
    /\ aplmeta_file = last_emitted \o "\n"
    /\ last_emit_ts = now

(***************************************************************************)
(* C13  The cache-busting suffix.                                          *)
(***************************************************************************)
\* The session key as the suffix spells it: the PID, 0x0 when there is none.
SessionKey(pid) == IF Truthy(pid) THEN pid ELSE "0x0"

\* C13: the cover reference of every published line, placeholder or cached
\* cover, retained sticky reference and late upgrade included, ends with ?v=K
\* where K is the session key current at that publish; so does the reference
\* of a publish in progress; and two publishes under different session keys
\* carry different references.
C13_CacheBust ==
    /\ \A i \in 1..Len(fe_calls) :
          EndsWith(CoverOf(fe_calls[i].line), "?v=" \o SessionKey(fe_calls[i].pid))
    /\ pc \in {"write", "replace"}
          => EndsWith(frame.cover_url, "?v=" \o SessionKey(persistent_id))
    /\ \A i, j \in 1..Len(fe_calls) :
          SessionKey(fe_calls[i].pid) # SessionKey(fe_calls[j].pid)
          => CoverOf(fe_calls[i].line) # CoverOf(fe_calls[j].line)

\* Two sessions have published the same file, each under its own key.
C13_Witness ==
    /\ Len(fe_calls) >= 2
    /\ fe_calls[1].pid = "0xAA"
    /\ fe_calls[Len(fe_calls)].pid = "0xBB"
    /\ UsesPlaceholder(fe_calls[1].line)
    /\ UsesPlaceholder(fe_calls[Len(fe_calls)].line)
    /\ CoverOf(fe_calls[1].line) # CoverOf(fe_calls[Len(fe_calls)].line)

(***************************************************************************)
(* C14, C15, C16  What a field line and a title line may change.           *)
(***************************************************************************)
\* C14: a Track length line whose value is not an integer never changes the
\* stored duration, and the duration field of every published line is an
\* integer.
C14_UnparsedDurationIgnored ==
    [][/\ (ReadsLine("Track length") /\ ~IsDigit(Val(Head(stdin))))
          => duration' = duration
       /\ \A i \in 1..Len(fe_calls') : IsDigit(Split(fe_calls'[i].line, "~~~")[4])]_vars

\* C15: an Artist, Album Name or Title line with the empty value never
\* overwrites or clears a field that holds a non-empty value.
C15_EmptyValueNoOp ==
    [][(/\ pc = "select"
        /\ stdin # <<>>
        /\ Key(Head(stdin)) \in {"Artist", "Album Name", "Title"}
        /\ Val(Head(stdin)) = ""
        /\ stdin' = Tail(stdin))
       => /\ Truthy(artist) => artist' = artist
          /\ Truthy(album) => album' = album
          /\ Truthy(title) => title' = title]_vars

\* C16: a Title line read while a settle window is armed and the session key
\* is the one the window was armed under leaves the start and the deadline of
\* the window unchanged.
C16_ArmingWhileArmed ==
    [][(ReadsLine("Title") /\ pending /\ pending_pid = persistent_id)
       => (pending' /\ UNCHANGED <<pending_start, pending_deadline>>)]_vars

(***************************************************************************)
(* C17  The settle window under a stream that never pauses.                *)
(***************************************************************************)
\* How many lines the pipe holds at most, and for how many ticks after the
\* start the clock is counted while the stream goes on (long enough for every
\* deadline of the run to pass; lines after that arrive in one burst).
MaxPipe == 3
FloodSpan == 40

\* A line of the stream that the script has no use for.
FloodLine == "Volume: -20.00."

\* The metadata reader writes another line before the pipe is empty: the
\* select of the next turn of the loop finds the pipe readable once more.
flood ==
    /\ pc = "select"
    /\ upstream = <<>>
    /\ stdin # <<>>
    /\ Len(stdin) < MaxPipe
    /\ stdin' = Append(stdin, FloodLine)
    /\ now' = IF now < StartTime + FloodSpan THEN now + 1 ELSE now
    /\ last_event' = Event("pipe", "flood")
    /\ UNCHANGED <<PGM_VERSION, upstream, next_arrival, cover_writes, pc, fieldVars,
                   persistent_id, track_epoch, have_cover_art, pendingVars, emitVars,
                   covers, fileVars, frame, poll_deadline>>

\* A track, and a stream that may go on behind it.
ScriptFlood == <<
    Burst({AtOnce, HalfSecond},
          << "Persistent ID: 0xAA.", "Title: \"Imagine\".", "Artist: \"Band\"." >>) >>

InitFlood == InitState({PGM_183, PGM_184}, {ScriptFlood})

\* The loop and the metadata reader; the cover directory is left alone.
NextFlood ==
    \/ arrive
    \/ stdin # <<>> /\ read_line(Head(stdin))
    \/ select_timeout
    \/ poll_step
    \/ poll_expire
    \/ write_tmp
    \/ write_tmp_fails
    \/ replace_and_notify
    \/ replace_fails
    \/ wait
    \/ flood

\* The loop takes its next step whenever it has one, and the clock goes on:
\* every step of the process and of the clock is weakly fair.  Nothing is
\* asked of the metadata reader or of the cover-art writer.
FairLoop ==
    /\ WF_vars(stdin # <<>> /\ read_line(Head(stdin)))
    /\ WF_vars(select_timeout)
    /\ WF_vars(poll_step)
    /\ WF_vars(poll_expire)
    /\ WF_vars(write_tmp \/ write_tmp_fails)
    /\ WF_vars(replace_and_notify \/ replace_fails)
    /\ WF_vars(arrive)
    /\ WF_vars(wait)

SpecFlood == InitFlood /\ [][NextFlood]_vars /\ FairLoop

\* C17: a settle window, once armed, is eventually fired or cancelled (the
\* window is no longer armed; a process ended by a failed write aside),
\* whatever the arrival pattern of the lines, a stream that always has another
\* line ready included.
C17_EventualFire == pending ~> (~pending \/ pc = "crashed")

(***************************************************************************)
(* C18, C19  The extension of the deadline for arriving art.               *)
(***************************************************************************)
\* The step reads a PictureBytes line with a positive count while a settle
\* window is armed.
ArtArrivesWhileArmed ==
    /\ ReadsLine("PictureBytes")
    /\ ParseInt(Val(Head(stdin))) > 0
    /\ pending

\* C18: a positive PictureBytes line read while a window is armed never moves
\* the deadline of the window to an earlier time, and when it changes the
\* deadline the new deadline is at least 0.35 s after the time of the line.
C18_ArtExtensionForward ==
    [][ArtArrivesWhileArmed
       => /\ pending_deadline' >= pending_deadline
          /\ pending_deadline' # pending_deadline
             => pending_deadline' >= now + ART_EXTEND_SEC]_vars

\* C19: once a positive PictureBytes line has been handled while a window is
\* armed, the deadline of the window is no later than the start of the window
\* plus MAX_WAIT_FOR_ART_SEC (1.0 s).
C19_ArtExtensionCapped ==
    [][ArtArrivesWhileArmed
       => pending_deadline' <= pending_start' + MAX_WAIT_FOR_ART_SEC]_vars

(***************************************************************************)
(* C20  A genuine new track.                                               *)
(***************************************************************************)
\* The title and the artist of a published line: its first and second field.
TitleOf(line) == Split(line, "~~~")[1]
ArtistOf(line) == Split(line, "~~~")[2]

\* The step reads an identity with another token than the current one, and
\* the test of a late correction (a window armed on the current title, or the
\* current title published, no more than 3.0 s ago) does not apply.
GenuineNewTrack ==
    /\ ReadsLine("Persistent ID")
    /\ Val(Head(stdin)) # persistent_id
    /\ ~is_late_pid_update

\* C20: a genuine new track resets title, artist and album to unset, the
\* duration to "0", the picture-bytes hint to unknown and the locked-art flag
\* to false, cancels an armed window, publishes nothing and stamps a new epoch;
\* and no publish under a later epoch carries the title or the artist of a
\* publish under an earlier one (no run here repeats them in a later session).
C20_GenuineNewTrack ==
    [][/\ GenuineNewTrack
          => /\ FieldsReset
             /\ have_cover_art' = FALSE
             /\ persistent_id' = Val(Head(stdin))
             /\ track_epoch' = now
             /\ pc' = "select"
             /\ UNCHANGED fileVars
       /\ \A i, j \in 1..Len(fe_calls') :
             (i < j /\ fe_calls'[i].epoch # fe_calls'[j].epoch)
             => /\ TitleOf(fe_calls'[j].line) # TitleOf(fe_calls'[i].line)
                /\ ArtistOf(fe_calls'[i].line) # ""
                   => ArtistOf(fe_calls'[j].line) # ArtistOf(fe_calls'[i].line)]_vars

\* In 1.8.3 the new identity came half a second into the settle window of a
\* track whose title had changed: the window was cancelled with nothing
\* published, and the next track is out under the new epoch, without the
\* artist of the old one.
C20_Witness ==
    /\ PGM_VERSION = PGM_183
    /\ Len(fe_calls) = 1
    /\ fe_calls[1].pid = "0xBB"
    /\ fe_calls[1].epoch = StartTime + HalfSecond
    /\ TitleOf(fe_calls[1].line) = "Red"
    /\ ArtistOf(fe_calls[1].line) = ""

(***************************************************************************)
(* C21, C22  The late correction and the fire of the settle window.        *)
(***************************************************************************)
\* The step is the select returning with nothing to read at or after the
\* deadline of an armed window: the window fires.
Fires ==
    /\ pc = "select"
    /\ stdin = <<>>
    /\ pending
    /\ now >= pending_deadline
    /\ last_event'.kind \in WindowCallers

\* The fields a publish of the window carries, as frame holds them.
FrameCarriesFields ==
    /\ frame'.t = title
    /\ frame'.a = Or(artist, "")
    /\ frame'.al = Or(album, "AirPlay Source")
    /\ frame'.dur = Or(duration, "0")

\* C21: in 1.8.3, an identity change classified as a late correction leaves
\* the epoch, the title, artist, album, duration and picture-bytes hint
\* unchanged and an armed window armed with the same start and deadline, and
\* relabels the session and the snapshot of the window; a window that fires
\* with the relabelled snapshot is not cancelled and hands over the retained
\* fields, the cover reference suffixed by the new session key.
C21_LateCorrectionRelabels ==
    [][PGM_VERSION = PGM_183
       => /\ (IdentityChanges /\ is_late_pid_update)
             => /\ UNCHANGED <<track_epoch, title, artist, album, duration,
                               picture_bytes, pending, pending_start,
                               pending_deadline, pending_title_at_start>>
                /\ persistent_id' = Val(Head(stdin))
                /\ pending => pending_pid' = Val(Head(stdin))
                /\ UNCHANGED <<pc, fileVars, emitVars>>
          /\ (Fires /\ Truthy(title))
             => /\ last_event'.outcome # "canceled"
                /\ pc' = "write"
                   => /\ FrameCarriesFields
                      /\ EndsWith(frame'.cover_url,
                                  "?v=" \o SessionKey(persistent_id))]_vars

\* 1.8.3 has published the track of 0xAA under the key 0xBB: the epoch is
\* that of 0xAA, the title and the artist are those read before the
\* correction, the window fired at the deadline it was armed with.
C21_Witness ==
    /\ PGM_VERSION = PGM_183
    /\ Len(fe_calls) = 1
    /\ fe_calls[1].pid = "0xBB"
    /\ fe_calls[1].epoch = StartTime
    /\ TitleOf(fe_calls[1].line) = "Imagine"
    /\ ArtistOf(fe_calls[1].line) = "Band"
    /\ EndsWith(CoverOf(fe_calls[1].line), "?v=0xBB")

\* C22: a window that fires while the session key differs from the key it was
\* armed under, or while there is no non-empty title, publishes nothing (no
\* write, no notification, the bookkeeping of the last publish unchanged) and
\* is cleared; any other fire hands one record to the emit (which writes it,
\* polls for its cover first, or drops it as a repeat), and the window is
\* cleared when the emit has returned.
C22_FireValidation ==
    [][/\ Fires
          => IF pending_pid # persistent_id \/ ~Truthy(title)
             THEN /\ ~pending'
                  /\ pc' = "select"
                  /\ frame' = NoFrame
                  /\ UNCHANGED <<fileVars, emitVars>>
             ELSE /\ last_event'.outcome \in {"emit", "poll", "deduped"}
                  /\ pc' \in {"write", "poll"} => (pending' /\ frame'.t = title)
                  /\ pc' = "write" => FrameCarriesFields
       /\ (pc = "replace" /\ frame.caller \in WindowCallers /\ pc' = "select")
          => /\ ~pending'
             /\ Len(fe_calls') = Len(fe_calls) + 1
       /\ (last_event'.kind \in WindowCallers /\ pc' = "select") => ~pending']_vars

\* A window has fired with the title emptied since it was armed: cancelled,
\* nothing written, nothing sent.
C22_Witness ==
    /\ last_event.outcome = "canceled"
    /\ title = ""
    /\ ~pending
    /\ pc = "select"
    /\ fe_calls = <<>>
    /\ aplmeta_file = NoFile

(***************************************************************************)
(* C23 .. C26  The late upgrade from the placeholder to the cover.         *)
(***************************************************************************)
\* The step reads a PictureBytes line with a positive count.
ArtArrives ==
    /\ ReadsLine("PictureBytes")
    /\ ParseInt(Val(Head(stdin))) > 0

\* The step hands a line to the emit from the PictureBytes handler: a late
\* upgrade (written, or dropped as a repeat).
LateUpgrade ==
    /\ ArtArrives
    /\ last_event'.kind \in {"late_refresh", "late_art"}

\* C23: a late upgrade happens only when the last publish used the
\* placeholder, was made under the current session key and no more than
\* LATE_REFRESH_CUTOFF_SEC (2.0 s) ago, and a fresh cover is in the directory;
\* a positive PictureBytes line read later than that after the publish starts
\* no publish.
C23_LateUpgradeEligibility ==
    [][/\ LateUpgrade
          => /\ last_emit_used_default
             /\ last_emit_pid = persistent_id
             /\ now - last_emit_ts <= LATE_REFRESH_CUTOFF_SEC
             /\ FreshCoverPresent
       /\ (ArtArrives /\ now - last_emit_ts > LATE_REFRESH_CUTOFF_SEC)
          => (pc' = "select" /\ UNCHANGED fileVars)]_vars

\* C24: the line of a late upgrade has the title, artist, album and duration
\* of the last publish (the placeholder publish it upgrades), whatever Artist,
\* Album Name, Track length or Title lines were read in between; only the
\* cover reference differs.
C24_LateUpgradeKeepsText ==
    [][(LateUpgrade /\ pc' = "write")
       => /\ frame'.t = last_emit_title
          /\ frame'.a = last_emit_artist
          /\ frame'.al = last_emit_album
          /\ frame'.dur = last_emit_duration
          /\ frame'.cover_url # CoverOf(last_emitted)]_vars

\* C25: a positive PictureBytes line read while a settle window is armed
\* publishes nothing by itself (it may only move the deadline); a late
\* upgrade comes only from one read while no window is armed.
C25_LateUpgradeOutsideWindow ==
    [][(ArtArrives /\ pending)
       => /\ last_event'.kind \notin {"late_refresh", "late_art"}
          /\ pc' = "select"
          /\ UNCHANGED <<fileVars, emitVars>>]_vars

\* The step completes the publish of a late upgrade.
LateUpgradePublished ==
    /\ pc = "replace"
    /\ frame.caller \in {"late_refresh", "late_art"}
    /\ pc' = "select"

\* C26: the publish of a late upgrade records that the last publish did not
\* use the placeholder; while that is recorded, a positive PictureBytes line
\* publishes nothing; and the record turns back to "used the placeholder"
\* only by a publish of the settle window with the placeholder cover.  Hence
\* at most one late upgrade follows a placeholder publish.
C26_LateUpgradeOneShot ==
    [][/\ LateUpgradePublished
          => (~last_emit_used_default' /\ ~UsesPlaceholder(last_emitted'))
       /\ (ArtArrives /\ ~last_emit_used_default)
          => /\ last_event'.kind \notin {"late_refresh", "late_art"}
             /\ pc' = "select"
             /\ UNCHANGED <<fileVars, emitVars>>
       /\ (~last_emit_used_default /\ last_emit_used_default')
          => /\ pc = "replace"
             /\ frame.caller \in WindowCallers
             /\ UsesPlaceholder(frame.metadata)]_vars

\* A second positive PictureBytes line has been read after the late upgrade
\* of a placeholder publish, and the run still has those two publishes only.
C26_Witness ==
    /\ Len(fe_calls) = 2
    /\ UsesPlaceholder(fe_calls[1].line)
    /\ ~UsesPlaceholder(fe_calls[2].line)
    /\ SameSession(fe_calls[1], fe_calls[2])
    /\ fe_calls[2].ts - fe_calls[1].ts <= LATE_REFRESH_CUTOFF_SEC
    /\ last_event = Event("PictureBytes", "stored")
    /\ picture_bytes > 0
    /\ ~pending
    /\ stdin = <<>>
    /\ upstream = <<>>

(***************************************************************************)
(* C27  The cover poll before an emit.                                     *)
(***************************************************************************)
\* The step is a turn of the cover poll, or its end.
PollTurn == pc = "poll" /\ last_event'.kind \in WindowCallers

\* C27: the cover poll is entered with a non-zero PictureBytes hint and no
\* fresh cover, for COVER_POLL_MAX_SEC from then; a turn before the deadline
\* that finds a fresh cover ends the poll with that cover, one that finds
\* none sleeps COVER_POLL_STEP_SEC and stays, so that the test is re-run at
\* most COVER_POLL_MAX_SEC / COVER_POLL_STEP_SEC times; at the deadline the
\* poll ends with the placeholder; and while it runs no line is read and no
\* field, key or file of the program changes.
C27_BoundedPoll ==
    [][/\ (pc # "poll" /\ pc' = "poll")
          => /\ poll_deadline' = now + COVER_POLL_MAX_SEC
             /\ picture_bytes # 0
             /\ newest_cover_path_fresh = ""
       /\ pc' = "poll"
          => /\ picture_bytes' # 0
             /\ now' <= poll_deadline'
             /\ poll_deadline' - now' <= COVER_POLL_MAX_SEC
             /\ (poll_deadline' - now') % COVER_POLL_STEP_SEC = 0
       /\ pc = "poll"
          => UNCHANGED <<stdin, upstream, fieldVars, persistent_id, track_epoch,
                         poll_deadline, emitVars, fileVars>>
       /\ (PollTurn /\ now < poll_deadline)
          => IF newest_cover_path_fresh # ""
             THEN /\ pc' \in {"write", "select"}
                  /\ now' <= now + COVER_POLL_STEP_SEC
                  /\ pc' = "write"
                     => ~StartsWith(frame'.cover_url, DEFAULT_COVER_WEB)
             ELSE /\ pc' = "poll"
                  /\ now' = now + COVER_POLL_STEP_SEC
       /\ (PollTurn /\ now >= poll_deadline)
          => /\ pc' \in {"write", "select"}
             /\ now' = now
             /\ pc' = "write" => StartsWith(frame'.cover_url, DEFAULT_COVER_WEB)]_vars

\* The poll has run to its deadline while the next lines of the reader were
\* due, and so ends with the placeholder.
C27_Witness ==
    /\ pc = "poll"
    /\ now = poll_deadline
    /\ newest_cover_path_fresh = ""
    /\ upstream # <<>>
    /\ next_arrival < now
    /\ fe_calls = <<>>

(***************************************************************************)
(* C28  The key of the armed window.                                       *)
(***************************************************************************)
\* The restart branch of start_settle_window (lines 418..423): a Title is
\* accepted while a window is armed under another key.
RestartBranch ==
    /\ ReadsLine("Title")
    /\ last_event'.outcome = "stored"
    /\ pending
    /\ pending_pid # persistent_id

\* The cancel of emit_pending on a key mismatch (lines 449..452).
MismatchCancel == Fires /\ pending_pid # persistent_id

\* C28: whenever a settle window is armed, the key taken at arming is the
\* current key, so that neither the restart branch of start_settle_window
\* nor the key-mismatch cancel of emit_pending is ever taken.
C28_ArmedKeyIsCurrent ==
    [][/\ pending' => pending_pid' = persistent_id'
       /\ ~RestartBranch
       /\ ~MismatchCancel]_vars

\* A window armed under 0xAA is still armed, now under 0xBB, after a late
\* correction of the key.
C28_Witness ==
    /\ PGM_VERSION = PGM_183
    /\ pending
    /\ pending_pid = "0xBB"
    /\ persistent_id = "0xBB"
    /\ last_event = Event("Persistent ID", "late")
    /\ title = "Imagine"

(***************************************************************************)
(* C29  The first identity.                                                *)
(***************************************************************************)
\* The step reads an identity while the program has none.
FirstIdentity == ReadsLine("Persistent ID") /\ persistent_id = None

\* C29: the first identity is taken for a new track, never for a late
\* correction: it sets the key, clears the title and the other fields and
\* disarms the window, and publishes nothing; no publish starts without a
\* title (in 1.8.3, the title of the last publish, which the first identity
\* clears as well), and only a Title line sets one, so the cleared title is
\* published only if a Title line is read again.
C29_FirstIdentityResets ==
    [][/\ FirstIdentity
          => /\ last_event' = Event("Persistent ID", "new")
             /\ persistent_id' = Val(Head(stdin))
             /\ track_epoch' = now
             /\ FieldsReset
             /\ PGM_VERSION = PGM_183 => last_emit_title' = None
             /\ UNCHANGED <<pc, fileVars>>
       /\ (pc = "select" /\ pc' \in {"write", "poll"})
          => \/ Truthy(title')
             \/ (PGM_VERSION = PGM_183 /\ Truthy(last_emit_title))
       /\ (~Truthy(title) /\ Truthy(title')) => ReadsLine("Title")]_vars

\* The first identity was read while the window of a title was armed: the
\* run ends with no title and nothing published.
C29_Witness ==
    /\ last_event = Event("Persistent ID", "new")
    /\ persistent_id = "0xAA"
    /\ track_epoch = now
    /\ now < StartTime + SETTLE_WINDOW_SEC
    /\ title = None
    /\ ~pending
    /\ stdin = <<>>
    /\ upstream = <<>>
    /\ fe_calls = <<>>

(***************************************************************************)
(* C30  Artist, Album Name, Track length.                                  *)
(***************************************************************************)
FieldKeys == {"Artist", "Album Name", "Track length"}

\* The step reads an Artist, Album Name or Track length line.
ReadsField ==
    /\ pc = "select"
    /\ stdin # <<>>
    /\ Key(Head(stdin)) \in FieldKeys
    /\ stdin' = Tail(stdin)

\* C30: an Artist, Album Name or Track length line changes at most its own
\* field: not the two other fields, the title, the hint, the key or the
\* epoch; it leaves the settle window as it is, armed or not, and publishes
\* nothing.  A window is armed by a Title line only, and a publish starts
\* only from the fire of a window or from a late upgrade; so a value read
\* after the fire waits for one of these.
C30_FieldLinesOnlyStore ==
    [][/\ ReadsField
          => /\ Key(Head(stdin)) # "Artist" => UNCHANGED artist
             /\ Key(Head(stdin)) # "Album Name" => UNCHANGED album
             /\ Key(Head(stdin)) # "Track length" => UNCHANGED duration
             /\ UNCHANGED <<title, picture_bytes, persistent_id, track_epoch,
                            pendingVars, emitVars, fileVars, pc, frame, now>>
       /\ (~pending /\ pending') => ReadsLine("Title")
       /\ (pc = "select" /\ pc' \in {"write", "poll"}) => (Fires \/ LateUpgrade)]_vars

\* An artist read after the window fired: stored, and absent from the only
\* publish of the run so far.
C30_Witness ==
    /\ last_event = Event("Artist", "stored")
    /\ artist = "Band"
    /\ last_emit_artist = ""
    /\ Len(fe_calls) = 1
    /\ last_emitted = fe_calls[1].line
    /\ ~pending
    /\ pc = "select"

(***************************************************************************)
(* C31  The late upgrade and the key of the last publish.                  *)
(***************************************************************************)
\* C31: a late upgrade starts, and is published, only while the current key
\* is the key recorded at the last publish; a positive PictureBytes line read
\* while the two differ (as after a late correction of the key that follows
\* a placeholder publish) is stored and publishes nothing, fresh cover and
\* cutoff notwithstanding.
C31_LateUpgradeSameKey ==
    [][/\ LateUpgrade => last_emit_pid = persistent_id
       /\ LateUpgradePublished => last_emit_pid = persistent_id
       /\ (ArtArrives /\ last_emit_pid # persistent_id)
          => /\ last_event' = Event("PictureBytes", "stored")
             /\ pc' = "select"
             /\ UNCHANGED <<fileVars, emitVars>>]_vars

\* After a placeholder publish under 0xAA and a late correction of the key to
\* 0xBB, a positive PictureBytes line was read inside the cutoff with a fresh
\* cover in the directory, and the placeholder publish is still the only one.
C31_Witness ==
    /\ PGM_VERSION = PGM_183
    /\ last_event = Event("PictureBytes", "stored")
    /\ picture_bytes > 0
    /\ persistent_id = "0xBB"
    /\ last_emit_pid = "0xAA"
    /\ title = "Imagine"
    /\ last_emit_title = "Imagine"
    /\ last_emit_used_default
    /\ now - last_emit_ts <= LATE_REFRESH_CUTOFF_SEC
    /\ newest_cover_path_fresh # ""
    /\ Len(fe_calls) = 1
    /\ UsesPlaceholder(fe_calls[1].line)

====
